---- MODULE Spec2Model ----
(***************************************************************************)
(* qrzlib: the expiring DBM cache (DBMCache) and the lookup orchestrator   *)
(* (QRZ.get_call) of src/qrzlib/__init__.py.                               *)
(*                                                                         *)
(* Strings the code parses or normalises are sequences of one-character    *)
(* strings; time is the wall clock in seconds.                             *)
(***************************************************************************)
EXTENDS Integers, Sequences, FiniteSets, TLC

VARIABLES
  expr,       \* SpecParse: the cache_expire argument handed to DBMCache()
  handle,     \* SpecParse: outcome of DBMCache.__init__
  now,        \* datetime.now(), in seconds
  expire,     \* Spec: DBMCache._cache_expire of the store under test
  fdb,        \* Spec: content of the dbm file, key -> CacheRecord
  last,       \* Spec: the last call on the store and what it returned or raised
  prev,       \* Spec: the call before the last one
  written,    \* Spec: history, key -> the last put of the key not removed since
  cacheExpire, \* SpecQRZ: _cache_expire of QRZ._cache, from cache_age
  cache,      \* SpecQRZ: dbm file of QRZ._cache (DBM_CACHE), the positive store
  error,      \* SpecQRZ: dbm file of QRZ._error (DBM_ERROR), the negative store
  self_key,   \* SpecQRZ: QRZ.key, the session key the client holds
  sessionLive, \* SpecQRZ: whether the server still honours the key it gave
  qlast,      \* SpecQRZ: the last get_call since the clock moved, and its outcome
  lastFetch,  \* SpecQRZ: history, callsign -> the last answer the server gave
  location,   \* SpecFile: what the file system holds at the path of the dbm file
  open_handles, \* SpecFile: dbm objects of the running program still open
  opens,      \* SpecFile: dbm.open calls made by the last call
  carried,    \* SpecFile: history, keys whose entry was put before the current
              \* DBMCache was constructed
  dbm_file,   \* SpecLegacy: the gdbm file at DBM_FILE of src/qrzlib.py
  _expire,    \* SpecLegacy: GDBMCache._expire of the decorator
  legacy_key, \* SpecLegacy: QRZ.key of src/qrzlib.py
  _data,      \* SpecLegacy: QRZ._data, the dict get_call fills
  glast,      \* SpecLegacy: the last get_call and what the wrapped _get_call
              \* returned to it
  missed      \* SpecLegacy: history, callsign -> the dict the wrapped _get_call
              \* returned the last time it fetched the callsign

fileVars == <<location, open_handles, opens, carried>>
legacyVars == <<dbm_file, _expire, legacy_key, _data, glast, missed>>
storeVars == <<expr, handle, expire, fdb, last, prev, written, fileVars, legacyVars>>
qrzVars == <<cacheExpire, cache, error, self_key, sessionLive, qlast, lastFetch,
             legacyVars>>
vars == <<expr, handle, now, expire, fdb, last, prev, written,
          cacheExpire, cache, error, self_key, sessionLive, qlast, lastFetch,
          location, open_handles, opens, carried,
          dbm_file, _expire, legacy_key, _data, glast, missed>>

----------------------------------------------------------------------------
(* Bounds *)

\* longest cache_expire expression tried by SpecParse
MaxLen == 3

\* characters a cache_expire expression is made of
Digits == {"0", "1", "3", "5"}
Alphabet == Digits \cup {"H", "h", "D", "W", "M", "Y", "y", "-", "a", "\n"}

RECURSIVE StringsOfLen(_)
StringsOfLen(n) ==
  IF n = 0 THEN {<< >>}
  ELSE {Append(s, c) : s \in StringsOfLen(n - 1), c \in Alphabet}

Exprs == UNION {StringsOfLen(n) : n \in 0..MaxLen}

\* keys, payloads and clock readings of the store under test
Keys == {"k1", "k2"}
Vals == {"v1", "v2"}
StoreExprs == {<<"0">>, <<"1">>, <<"2">>}
\* cache_expire arguments of the DBMCache objects built on one path in
\* SpecFile, two of them malformed, and what the path can hold at first
FileExprs == {<<"1">>, <<"2">>, <<"a">>, <<"-", "5">>}
Locations == {"absent", "noparent", "denied"}
\* expire arguments of the legacy GDBMCache (0 is what QRZ passes), and the
\* first names the server can report for a callsign
LegacyExpires == {0, 60}
FirstNames == {"Ann", "Bob"}
Instants == {0, 1, 60, 61, 120, 121}

\* callsigns looked up, records and clock readings of the orchestrator
Calls == {<<"W", "6">>, <<"w", "6">>}
Records == {"rec1", "rec2"}
CacheAges == {<<"5", "Y">>, <<"1", "M">>}

----------------------------------------------------------------------------
(* DBMCache.__init__: the expiration expression *)

None == "None"

DigitVal == [c \in {"0", "1", "2", "3", "4", "5", "6", "7", "8", "9"} |->
  CASE c = "0" -> 0 [] c = "1" -> 1 [] c = "2" -> 2 [] c = "3" -> 3
    [] c = "4" -> 4 [] c = "5" -> 5 [] c = "6" -> 6 [] c = "7" -> 7
    [] c = "8" -> 8 [] c = "9" -> 9]

IsDigit(c) == c \in DOMAIN DigitVal

\* str.upper() on one character
UpperChar(c) ==
  CASE c = "h" -> "H" [] c = "d" -> "D" [] c = "w" -> "W" [] c = "m" -> "M"
    [] c = "y" -> "Y" [] c = "b" -> "B" [] c = "z" -> "Z" [] c = "s" -> "S"
    [] c = "a" -> "A" [] OTHER -> c

\* int() of a string of decimal digits
RECURSIVE ToInt(_)
ToInt(s) ==
  IF Len(s) = 0 THEN 0
  ELSE 10 * ToInt(SubSeq(s, 1, Len(s) - 1)) + DigitVal[s[Len(s)]]

\* DBMCache._EXPIRE_MULTIPLIER, seconds per unit
_EXPIRE_MULTIPLIER(unit) ==
  CASE unit = "" -> 60
    [] unit = "H" -> 3600
    [] unit = "D" -> 3600 * 24
    [] unit = "W" -> 3600 * 24 * 7
    [] unit = "M" -> (3600 * 24 * 61) \div 2     \* 3600 * 24 * 30.5
    [] unit = "Y" -> 3600 * 24 * 7 * 52

\* the character class [YMWDH] under re.IGNORECASE
IsUnitChar(c) == UpperChar(c) \in {"Y", "M", "W", "D", "H"}

\* length of the longest prefix of s made of \d characters
RECURSIVE DigitPrefix(_)
DigitPrefix(s) ==
  IF Len(s) = 0 \/ ~IsDigit(s[1]) THEN 0 ELSE 1 + DigitPrefix(Tail(s))

NoMatch == [matched |-> FALSE, g1 |-> << >>, g2 |-> ""]

\* DBMCache._PARSE_EXPIRE: re.compile(r'^(\d+)(|[YMWDH])$', re.IGNORECASE).match
\* Python's $ matches at the end of the string and also just before a newline
\* that ends the string. Returns the groups, or NoMatch.
_PARSE_EXPIRE(s) ==
  LET n == DigitPrefix(s)
      rest == SubSeq(s, n + 1, Len(s))
      body == IF Len(rest) > 0 /\ rest[Len(rest)] = "\n"
              THEN SubSeq(rest, 1, Len(rest) - 1) ELSE rest
  IN IF n = 0 THEN NoMatch
     ELSE IF Len(body) = 0 THEN [matched |-> TRUE, g1 |-> SubSeq(s, 1, n), g2 |-> ""]
     ELSE IF Len(body) = 1 /\ IsUnitChar(body[1])
       THEN [matched |-> TRUE, g1 |-> SubSeq(s, 1, n), g2 |-> body[1]]
     ELSE NoMatch

\* DBMCache.__init__ up to the computation of _cache_expire
DBMCacheInit(cache_expire) ==
  LET match == _PARSE_EXPIRE(cache_expire) IN
  IF ~match.matched THEN [exc |-> "SystemError", cache_expire |-> -1]
  ELSE LET _time == ToInt(match.g1)
           _mult == UpperChar(match.g2)
       IN [exc |-> None, cache_expire |-> _time * _EXPIRE_MULTIPLIER(_mult)]

----------------------------------------------------------------------------
(* DBMCache: the operations on the dbm file *)
(* A dbm file is a dictionary: a function from the keys it holds to the      *)
(* CacheRecord (age, data) pickled under each.                               *)

EmptyDbm == << >>

\* fdb[key] = value
DbmSet(db, key, value) ==
  [k \in DOMAIN db \cup {key} |-> IF k = key THEN value ELSE db[k]]

\* del fdb[key]
DbmDel(db, key) == [k \in DOMAIN db \ {key} |-> db[k]]

\* DBMCache.put: fdb[key] = pickle.dumps(CacheRecord(datetime.now(), data))
DBMCachePut_KeepExisting(db, key, data, t) ==
  IF key \in DOMAIN db THEN db ELSE DbmSet(db, key, [age |-> t, data |-> data])

DBMCachePut(db, key, data, t) ==
  DbmSet(db, key, [age |-> t, data |-> data])

\* DBMCache.get: the value returned or the exception raised
DBMCacheGet_IgnoresTTL(db, cache_expire, key, t) ==
  IF key \notin DOMAIN db THEN [exc |-> "KeyError", ret |-> None]
  ELSE IF db[key].age < t THEN [exc |-> "KeyError", ret |-> None]
  ELSE [exc |-> None, ret |-> db[key].data]

DBMCacheGet(db, cache_expire, key, t) ==
  IF key \notin DOMAIN db THEN [exc |-> "KeyError", ret |-> None]
  ELSE IF db[key].age + cache_expire < t THEN [exc |-> "KeyError", ret |-> None]
  ELSE [exc |-> None, ret |-> db[key].data]

\* DBMCache.remove: del fdb[key] raises KeyError on a key the file does not hold
DBMCacheRemove_Noop(db, key) ==
  IF key \notin DOMAIN db THEN [exc |-> "KeyError", ret |-> None, db |-> db]
  ELSE [exc |-> None, ret |-> None, db |-> db]

DBMCacheRemove(db, key) ==
  IF key \notin DOMAIN db THEN [exc |-> "KeyError", ret |-> None, db |-> db]
  ELSE [exc |-> None, ret |-> None, db |-> DbmDel(db, key)]

\* DBMCache.__len__: len(fdb)
DBMCacheLen(db) == Cardinality(DOMAIN db)

\* DBMCache.expiration_date: age + timedelta(seconds=_cache_expire) of the
\* record under key; fdb[key] raises KeyError on a key the file does not hold
DBMCacheExpirationDate(db, cache_expire, key) ==
  IF key \notin DOMAIN db THEN [exc |-> "KeyError", ret |-> None]
  ELSE [exc |-> None, ret |-> db[key].age + cache_expire]

----------------------------------------------------------------------------
(* SpecParse: DBMCache() on every expression up to MaxLen characters *)

NoHandle == [exc |-> "not called", cache_expire |-> -1]

NoPut == [at |-> -1, data |-> None]

Idle == [op |-> "idle", key |-> None, exc |-> None, ret |-> None, at |-> 0]

\* a dict without keys
EmptyDict == << >>

GIdle == [op |-> "idle", call |-> << >>, exc |-> None, ret |-> EmptyDict, hit |-> FALSE]

LegacyUnused ==
  /\ dbm_file = [exists |-> FALSE, db |-> EmptyDict]
  /\ _expire = 0
  /\ legacy_key = None
  /\ _data = EmptyDict
  /\ glast = GIdle
  /\ missed = [c \in Calls |-> EmptyDict]

FileUnused ==
  /\ location = "absent"
  /\ open_handles = 0
  /\ opens = 0
  /\ carried = {}

StoreUnused ==
  /\ FileUnused
  /\ LegacyUnused
  /\ now = 0
  /\ expire = 0
  /\ fdb = EmptyDbm
  /\ last = Idle
  /\ prev = Idle
  /\ written = [k \in Keys |-> NoPut]

QIdle == [op |-> "idle", call |-> << >>, exc |-> None, ret |-> None,
          fetched |-> FALSE, reply |-> "none"]

NoFetch == [reply |-> "none", data |-> None, at |-> -1]

QrzUnused ==
  /\ LegacyUnused
  /\ cacheExpire = 0
  /\ cache = EmptyDbm
  /\ error = EmptyDbm
  /\ self_key = "unset"
  /\ sessionLive = FALSE
  /\ qlast = QIdle
  /\ lastFetch = [c \in Calls |-> NoFetch]

InitParse ==
  /\ expr \in Exprs
  /\ handle = NoHandle
  /\ StoreUnused
  /\ QrzUnused

Construct ==
  /\ handle = NoHandle
  /\ handle' = DBMCacheInit(expr)
  /\ UNCHANGED <<expr, now, expire, fdb, last, prev, written, qrzVars, fileVars>>

NextParse == Construct

SpecParse == InitParse /\ [][NextParse]_vars

----------------------------------------------------------------------------
(* Spec: one DBMCache and the calls made on it *)

Init ==
  /\ expr \in StoreExprs
  /\ handle = DBMCacheInit(expr)
  /\ now = 0
  /\ expire = handle.cache_expire
  /\ fdb = EmptyDbm
  /\ last = Idle
  /\ prev = Idle
  /\ written = [k \in Keys |-> NoPut]
  /\ FileUnused
  /\ QrzUnused

Put(k, v) ==
  /\ fdb' = DBMCachePut(fdb, k, v, now)
  /\ last' = [op |-> "put", key |-> k, exc |-> None, ret |-> None, at |-> now]
  /\ prev' = last
  /\ written' = [written EXCEPT ![k] = [at |-> now, data |-> v]]
  /\ UNCHANGED <<expr, handle, now, expire, qrzVars, fileVars>>

\* a get that deletes the entry it finds too old
Get_EvictsStale(k) ==
  /\ LET r == DBMCacheGet(fdb, expire, k, now)
     IN /\ last' = [op |-> "get", key |-> k, exc |-> r.exc, ret |-> r.ret, at |-> now]
        /\ fdb' = IF r.exc = None THEN fdb ELSE DbmDel(fdb, k)
  /\ prev' = last
  /\ UNCHANGED <<expr, handle, now, expire, written, qrzVars, fileVars>>

Get(k) ==
  /\ LET r == DBMCacheGet(fdb, expire, k, now)
     IN last' = [op |-> "get", key |-> k, exc |-> r.exc, ret |-> r.ret, at |-> now]
  /\ prev' = last
  /\ UNCHANGED <<expr, handle, now, expire, fdb, written, qrzVars, fileVars>>

Remove(k) ==
  /\ LET r == DBMCacheRemove(fdb, k)
     IN /\ fdb' = r.db
        /\ last' = [op |-> "remove", key |-> k, exc |-> r.exc, ret |-> r.ret, at |-> now]
  /\ prev' = last
  /\ written' = [written EXCEPT ![k] = NoPut]
  /\ UNCHANGED <<expr, handle, now, expire, qrzVars, fileVars>>

\* a size() that counts only the entries get would still serve
Size_FreshOnly ==
  /\ last' = [op |-> "len", key |-> None, exc |-> None,
              ret |-> Cardinality({k \in Keys :
                        DBMCacheGet(fdb, expire, k, now).exc = None}),
              at |-> now]
  /\ prev' = last
  /\ UNCHANGED <<expr, handle, now, expire, fdb, written, qrzVars, fileVars>>

Size ==
  /\ last' = [op |-> "len", key |-> None, exc |-> None, ret |-> DBMCacheLen(fdb),
              at |-> now]
  /\ prev' = last
  /\ UNCHANGED <<expr, handle, now, expire, fdb, written, qrzVars, fileVars>>

ExpirationDate(k) ==
  /\ LET r == DBMCacheExpirationDate(fdb, expire, k)
     IN last' = [op |-> "expiration_date", key |-> k, exc |-> r.exc, ret |-> r.ret,
                 at |-> now]
  /\ prev' = last
  /\ UNCHANGED <<expr, handle, now, expire, fdb, written, qrzVars, fileVars>>

\* the wall clock moves on between two calls
Advance ==
  /\ \E t \in Instants : t > now /\ now' = t
  /\ UNCHANGED <<expr, handle, expire, fdb, last, prev, written, qrzVars, fileVars>>

Next ==
  \/ \E k \in Keys, v \in Vals : Put(k, v)
  \/ \E k \in Keys : Get(k)
  \/ \E k \in Keys : Remove(k)
  \/ Size
  \/ \E k \in Keys : ExpirationDate(k)
  \/ Advance

Spec == Init /\ [][Next]_vars

----------------------------------------------------------------------------
(* SpecFile: the dbm file of one path, and the DBMCache objects that runs of *)
(* the program build on it one after the other                              *)
(* location is "present" when the path holds a dbm file (its content is     *)
(* fdb), "absent" when only the file is missing, "noparent" when a          *)
(* directory of the path is missing, "denied" when the path cannot be       *)
(* written.                                                                 *)

\* dbm.open(name, 'c'): open the file, creating it if it does not exist
DbmOpenCreate(loc, db) ==
  IF loc \in {"noparent", "denied"}
  THEN [exc |-> "dbm.error", location |-> loc, db |-> db]
  ELSE [exc |-> None, location |-> "present",
        db |-> IF loc = "present" THEN db ELSE EmptyDbm]

\* a constructor that opens the file before it looks at cache_expire
DBMCacheNew_OpensFirst(cache_expire, loc, db) ==
  LET parsed == DBMCacheInit(cache_expire)
      file == DbmOpenCreate(loc, db)
  IN IF file.exc # None
     THEN [exc |-> "IOError", cache_expire |-> -1, location |-> file.location,
           db |-> file.db, opens |-> 1]
     ELSE [exc |-> parsed.exc, cache_expire |-> parsed.cache_expire,
           location |-> file.location, db |-> file.db, opens |-> 1]

\* a constructor that opens the file with flag 'n': always a new, empty file
DBMCacheNew_Truncates(cache_expire, loc, db) ==
  LET parsed == DBMCacheInit(cache_expire)
      file == DbmOpenCreate(loc, EmptyDbm)
  IN IF parsed.exc # None
     THEN [exc |-> "SystemError", cache_expire |-> -1, location |-> loc, db |-> db,
           opens |-> 0]
     ELSE IF file.exc # None
     THEN [exc |-> "IOError", cache_expire |-> -1, location |-> file.location,
           db |-> db, opens |-> 1]
     ELSE [exc |-> None, cache_expire |-> parsed.cache_expire,
           location |-> file.location, db |-> EmptyDbm, opens |-> 1]

\* DBMCache.__init__, whole: the expression is parsed, SystemError raised on a
\* mismatch, and only then is the file opened; dbm.error becomes IOError
DBMCacheNew(cache_expire, loc, db) ==
  LET parsed == DBMCacheInit(cache_expire)
      file == DbmOpenCreate(loc, db)
  IN IF parsed.exc # None
     THEN [exc |-> "SystemError", cache_expire |-> -1, location |-> loc, db |-> db,
           opens |-> 0]
     ELSE IF file.exc # None
     THEN [exc |-> "IOError", cache_expire |-> -1, location |-> file.location,
           db |-> file.db, opens |-> 1]
     ELSE [exc |-> None, cache_expire |-> parsed.cache_expire,
           location |-> file.location, db |-> file.db, opens |-> 1]

InitFile ==
  /\ expr = << >>
  /\ handle = NoHandle
  /\ now = 0
  /\ expire = 0
  /\ fdb = EmptyDbm
  /\ last = Idle
  /\ prev = Idle
  /\ written = [k \in Keys |-> NoPut]
  /\ location \in Locations
  /\ open_handles = 0
  /\ opens = 0
  /\ carried = {}
  /\ QrzUnused

\* a run of the program starts and builds DBMCache(path, e). The handles of
\* the run before are gone with its process. __init__ does not close the dbm
\* object it opens and keeps no reference to it: the object is closed when it
\* is finalized, at once under reference counting and at some later
\* collection otherwise.
FConstruct(e) ==
  LET r == DBMCacheNew(e, location, fdb) IN
  /\ handle' = [exc |-> r.exc, cache_expire |-> r.cache_expire]
  /\ expire' = IF r.exc = None THEN r.cache_expire ELSE 0
  /\ location' = r.location
  /\ fdb' = r.db
  /\ opens' = r.opens
  /\ open_handles' \in IF r.exc = None THEN {0, 1} ELSE {0}
  /\ carried' = IF r.exc = None THEN DOMAIN r.db ELSE {}
  /\ last' = [op |-> "construct", key |-> None, exc |-> r.exc, ret |-> None,
              at |-> now]
  /\ UNCHANGED <<expr, now, prev, written, qrzVars>>

\* the calls below are made on the DBMCache the run has built; each opens the
\* file in a with statement, which closes it on every way out

\* DBMCache.put
FPut(k, v) ==
  /\ handle.exc = None
  /\ fdb' = DBMCachePut(fdb, k, v, now)
  /\ written' = [written EXCEPT ![k] = [at |-> now, data |-> v]]
  /\ carried' = carried \ {k}
  /\ opens' = 1
  /\ last' = [op |-> "put", key |-> k, exc |-> None, ret |-> None, at |-> now]
  /\ UNCHANGED <<expr, handle, now, expire, prev, location, open_handles, qrzVars>>

\* DBMCache.get
FGet(k) ==
  /\ handle.exc = None
  /\ LET r == DBMCacheGet(fdb, expire, k, now)
     IN last' = [op |-> "get", key |-> k, exc |-> r.exc, ret |-> r.ret, at |-> now]
  /\ opens' = 1
  /\ UNCHANGED <<expr, handle, now, expire, fdb, prev, written, location,
                 open_handles, carried, qrzVars>>

\* DBMCache.remove
FRemove(k) ==
  /\ handle.exc = None
  /\ LET r == DBMCacheRemove(fdb, k)
     IN /\ fdb' = r.db
        /\ last' = [op |-> "remove", key |-> k, exc |-> r.exc, ret |-> r.ret, at |-> now]
  /\ written' = [written EXCEPT ![k] = NoPut]
  /\ carried' = carried \ {k}
  /\ opens' = 1
  /\ UNCHANGED <<expr, handle, now, expire, prev, location, open_handles, qrzVars>>

\* DBMCache.__len__
FSize ==
  /\ handle.exc = None
  /\ last' = [op |-> "len", key |-> None, exc |-> None, ret |-> DBMCacheLen(fdb),
              at |-> now]
  /\ opens' = 1
  /\ UNCHANGED <<expr, handle, now, expire, fdb, prev, written, location,
                 open_handles, carried, qrzVars>>

\* DBMCache.expiration_date
FExpirationDate(k) ==
  /\ handle.exc = None
  /\ LET r == DBMCacheExpirationDate(fdb, expire, k)
     IN last' = [op |-> "expiration_date", key |-> k, exc |-> r.exc, ret |-> r.ret,
                 at |-> now]
  /\ opens' = 1
  /\ UNCHANGED <<expr, handle, now, expire, fdb, prev, written, location,
                 open_handles, carried, qrzVars>>

\* the garbage collector finalizes the dbm object __init__ left open
Collect ==
  /\ open_handles > 0
  /\ open_handles' = 0
  /\ UNCHANGED <<expr, handle, now, expire, fdb, last, prev, written, location,
                 opens, carried, qrzVars>>

NextFile ==
  \/ \E e \in FileExprs : FConstruct(e)
  \/ \E k \in Keys, v \in Vals : FPut(k, v)
  \/ \E k \in Keys : FGet(k)
  \/ \E k \in Keys : FRemove(k)
  \/ FSize
  \/ \E k \in Keys : FExpirationDate(k)
  \/ Collect
  \/ Advance

SpecFile == InitFile /\ [][NextFile]_vars

----------------------------------------------------------------------------
(* SpecQRZ: the QRZ object, its two stores and the calls made on it *)

\* str.upper() on a callsign
Upper(callsign) == [i \in 1..Len(callsign) |-> UpperChar(callsign[i])]

\* QRZ.__init__: self._error = DBMCache(DBM_ERROR, '3M')
ErrorExpire == DBMCacheInit(<<"3", "M">>).cache_expire

\* QRZ.__init__: cache_age: str = '5Y'
DefaultCacheExpire == DBMCacheInit(<<"5", "Y">>).cache_expire

\* clock readings on both sides of the two time-to-lives
QInstants == {0, 1, ErrorExpire, DefaultCacheExpire, DefaultCacheExpire + 1}

\* What urlopen and minidom.parse give _get_call: the request fails in
\* transport, or the answer holds a <Callsign> element, or it holds only a
\* <Session> element with an <Error> text. A live session is answered with the
\* record or with "Not found"; any other session with a session error.
Replies(sessionValid) ==
  {[raised |-> TRUE, callsign |-> None, error |-> ""]} \cup
  IF sessionValid
  THEN {[raised |-> FALSE, callsign |-> r, error |-> ""] : r \in Records}
       \cup {[raised |-> FALSE, callsign |-> None, error |-> "Not found: callsign"]}
  ELSE {[raised |-> FALSE, callsign |-> None, error |-> "Session Timeout"]}

ReplyKind(reply) ==
  IF reply.raised THEN "URLError"
  ELSE IF reply.callsign # None THEN "Callsign"
  ELSE IF reply.error = "Not found: callsign" THEN "NotFound"
  ELSE "SessionError"

\* QRZ._get_call: the record returned or the exception raised
_get_call(sessionKey, callsign, reply) ==
  IF sessionKey = "unset" THEN [exc |-> "AttributeError", ret |-> None, msg |-> ""]
  ELSE IF reply.raised THEN [exc |-> "URLError", ret |-> None, msg |-> ""]
  ELSE IF reply.callsign = None THEN [exc |-> "KeyError", ret |-> None, msg |-> reply.error]
  ELSE [exc |-> None, ret |-> reply.callsign, msg |-> ""]

\* str(err) of a KeyError: the repr of its argument, quotes included
StrKeyError(msg) == <<"'", msg, "'">>

InitQRZ ==
  /\ expr = << >>
  /\ handle = NoHandle
  /\ StoreUnused
  /\ \E cache_age \in CacheAges : cacheExpire = DBMCacheInit(cache_age).cache_expire
  /\ cache = EmptyDbm
  /\ error = EmptyDbm
  /\ self_key = "unset"
  /\ sessionLive = FALSE
  /\ qlast = QIdle
  /\ lastFetch = [c \in Calls |-> NoFetch]

\* QRZ.authenticate
Authenticate ==
  /\ \E answer \in {"Key", "Error", "URLError"} :
       /\ self_key' = CASE answer = "Key" -> "K" [] answer = "Error" -> "none"
                        [] OTHER -> self_key
       /\ sessionLive' = (IF answer = "Key" THEN TRUE ELSE sessionLive)
  /\ UNCHANGED <<now, storeVars, cacheExpire, cache, error, qlast, lastFetch>>

\* the server drops the session
SessionExpires ==
  /\ sessionLive
  /\ sessionLive' = FALSE
  /\ UNCHANGED <<now, storeVars, cacheExpire, cache, error, self_key, qlast, lastFetch>>

\* QRZ.get_call with one time to live, the negative store's, for both stores
GetCall_OneTTL(callsign) ==
  LET hit == DBMCacheGet(cache, ErrorExpire, callsign, now)
      miss == DBMCacheGet(error, ErrorExpire, callsign, now)
      Return(exc, ret, fetched, reply) ==
        qlast' = [op |-> "get_call", call |-> callsign, exc |-> exc, ret |-> ret,
                  fetched |-> fetched, reply |-> reply]
  IN
  /\ IF hit.exc = None
     THEN /\ Return(None, hit.ret, FALSE, "none")
          /\ UNCHANGED <<cache, error, lastFetch>>
     ELSE IF miss.exc = None
     THEN /\ Return(None, None, FALSE, "none")
          /\ UNCHANGED <<cache, error, lastFetch>>
     ELSE \E reply \in Replies(self_key = "K" /\ sessionLive) :
       LET data == _get_call(self_key, Upper(callsign), reply)
           kind == IF data.exc = "AttributeError" THEN "none" ELSE ReplyKind(reply)
       IN
       /\ lastFetch' = IF kind \in {"Callsign", "NotFound", "SessionError"}
                       THEN [lastFetch EXCEPT ![callsign] =
                               [reply |-> kind, data |-> reply.callsign, at |-> now]]
                       ELSE lastFetch
       /\ IF data.exc = None
          THEN /\ cache' = DBMCachePut(cache, callsign, data.ret, now)
               /\ error' = error
               /\ Return(None, data.ret, TRUE, kind)
          ELSE IF data.exc = "KeyError"
          THEN /\ error' = DBMCachePut(error, callsign, StrKeyError(data.msg), now)
               /\ cache' = cache
               /\ Return(None, None, TRUE, kind)
          ELSE /\ UNCHANGED <<cache, error>>
               /\ Return(data.exc, None, TRUE, kind)
  /\ UNCHANGED <<now, storeVars, cacheExpire, self_key, sessionLive>>

\* QRZ.get_call
GetCall(callsign) ==
  LET hit == DBMCacheGet(cache, cacheExpire, callsign, now)
      miss == DBMCacheGet(error, ErrorExpire, callsign, now)
      Return(exc, ret, fetched, reply) ==
        qlast' = [op |-> "get_call", call |-> callsign, exc |-> exc, ret |-> ret,
                  fetched |-> fetched, reply |-> reply]
  IN
  /\ IF hit.exc = None
     THEN /\ Return(None, hit.ret, FALSE, "none")
          /\ UNCHANGED <<cache, error, lastFetch>>
     ELSE IF miss.exc = None
     THEN /\ Return(None, None, FALSE, "none")
          /\ UNCHANGED <<cache, error, lastFetch>>
     ELSE \E reply \in Replies(self_key = "K" /\ sessionLive) :
       LET data == _get_call(self_key, Upper(callsign), reply)
           kind == IF data.exc = "AttributeError" THEN "none" ELSE ReplyKind(reply)
       IN
       /\ lastFetch' = IF kind \in {"Callsign", "NotFound", "SessionError"}
                       THEN [lastFetch EXCEPT ![callsign] =
                               [reply |-> kind, data |-> reply.callsign, at |-> now]]
                       ELSE lastFetch
       /\ IF data.exc = None
          THEN /\ cache' = DBMCachePut(cache, callsign, data.ret, now)
               /\ error' = error
               /\ Return(None, data.ret, TRUE, kind)
          ELSE IF data.exc = "KeyError"
          THEN /\ error' = DBMCachePut(error, callsign, StrKeyError(data.msg), now)
               /\ cache' = cache
               /\ Return(None, None, TRUE, kind)
          ELSE /\ UNCHANGED <<cache, error>>
               /\ Return(data.exc, None, TRUE, kind)
  /\ UNCHANGED <<now, storeVars, cacheExpire, self_key, sessionLive>>

\* the wall clock moves on between two calls; qlast describes a call made at
\* the current clock reading
QAdvance ==
  /\ \E t \in QInstants : t > now /\ now' = t
  /\ qlast' = QIdle
  /\ UNCHANGED <<storeVars, cacheExpire, cache, error, self_key, sessionLive, lastFetch>>

NextQRZ ==
  \/ Authenticate
  \/ SessionExpires
  \/ \E c \in Calls : GetCall(c)
  \/ QAdvance

SpecQRZ == InitQRZ /\ [][NextQRZ]_vars

----------------------------------------------------------------------------
(* SpecQRZIO: SpecQRZ on storage that can fail while a store is written *)

\* QRZ.get_call when the put it reaches fails: dbm.open or pickle.dumps raises
\* inside DBMCache.put, which raises IOError; get_call catches KeyError only.
\* reply is what the server answered to the fetch of this call. (lastFetch
\* keeps the answers of the calls that ran on working storage.)
GetCallPutFails(callsign, reply) ==
  LET hit == DBMCacheGet(cache, cacheExpire, callsign, now)
      miss == DBMCacheGet(error, ErrorExpire, callsign, now)
      data == _get_call(self_key, Upper(callsign), reply)
  IN
  /\ hit.exc # None
  /\ miss.exc # None
  /\ reply \in Replies(self_key = "K" /\ sessionLive)
  /\ data.exc \in {None, "KeyError"}
  /\ qlast' = [op |-> "get_call", call |-> callsign, exc |-> "IOError",
               ret |-> None, fetched |-> TRUE, reply |-> ReplyKind(reply)]
  /\ UNCHANGED <<now, storeVars, cacheExpire, cache, error, self_key, sessionLive,
                 lastFetch>>

NextQRZIO ==
  \/ Authenticate
  \/ SessionExpires
  \/ \E c \in Calls : GetCall(c)
  \/ \E c \in Calls : \E reply \in Replies(TRUE) \cup Replies(FALSE) :
       GetCallPutFails(c, reply)
  \/ QAdvance

SpecQRZIO == InitQRZ /\ [][NextQRZIO]_vars

----------------------------------------------------------------------------
(* SpecLegacy: QRZ of src/qrzlib.py, whose _get_call is wrapped by the      *)
(* GDBMCache decorator. A record is a dict: a function from its keys to     *)
(* their values.                                                            *)

\* GDBMCache._kexpire: f"_{self.__class__.__name__}_expire_"
KExpire == "_GDBMCache_expire_"

\* d[key] = value
DictSet(d, key, value) ==
  [k \in DOMAIN d \cup {key} |-> IF k = key THEN value ELSE d[k]]

\* del d[key]
DictDel(d, key) == [k \in DOMAIN d \ {key} |-> d[k]]

\* for tagname, value in other.items(): d[tagname] = value
DictUpdate(d, other) ==
  [k \in DOMAIN d \cup DOMAIN other |-> IF k \in DOMAIN other THEN other[k] ELSE d[k]]

\* what _get_call returns when the server has no such callsign
NotFoundDict == [k \in {"__qrzlib_error"} |-> "NotFound"]

\* what the function under the decorator does: urlopen raises, or the dict
\* built from the <Callsign> element, or the "not found" dict
LegacyReplies(callsign) ==
  {[raised |-> TRUE, data |-> EmptyDict]}
  \cup {[raised |-> FALSE, data |-> [call |-> Upper(callsign), fname |-> f]] :
          f \in FirstNames}
  \cup {[raised |-> FALSE, data |-> NotFoundDict]}

\* GDBMCache.get_key: gdbm.error (no file to open with 'r') becomes
\* SystemError; fdb[key] raises KeyError; a record young enough is returned
\* after del record[_kexpire]; an older one raises KeyError
GDBMCacheGetKey(file, max_age, key, t) ==
  IF ~file.exists THEN [exc |-> "SystemError", record |-> EmptyDict]
  ELSE IF key \notin DOMAIN file.db THEN [exc |-> "KeyError", record |-> EmptyDict]
  ELSE LET record == file.db[key] IN
       IF max_age = 0 \/ record[KExpire] > t - max_age
       THEN [exc |-> None, record |-> DictDel(record, KExpire)]
       ELSE [exc |-> "KeyError", record |-> EmptyDict]

\* GDBMCache.store_key: data[_kexpire] = time.time() is done on the dict of
\* the caller, which is then dumped under key; data is that dict afterwards
GDBMCacheStoreKey(file, key, data, t) ==
  LET stamped == DictSet(data, KExpire, t) IN
  [data |-> stamped,
   file |-> [exists |-> TRUE, db |-> DictSet(file.db, key, stamped)]]

InitLegacy ==
  /\ dbm_file \in {[exists |-> e, db |-> EmptyDict] : e \in BOOLEAN}
  /\ _expire \in LegacyExpires
  /\ legacy_key = None
  /\ _data = EmptyDict
  /\ glast = GIdle
  /\ missed = [c \in Calls |-> EmptyDict]
  /\ now = 0
  /\ expr = << >>
  /\ handle = NoHandle
  /\ expire = 0
  /\ fdb = EmptyDbm
  /\ last = Idle
  /\ prev = Idle
  /\ written = [k \in Keys |-> NoPut]
  /\ FileUnused
  /\ cacheExpire = 0
  /\ cache = EmptyDbm
  /\ error = EmptyDbm
  /\ self_key = "unset"
  /\ sessionLive = FALSE
  /\ qlast = QIdle
  /\ lastFetch = [c \in Calls |-> NoFetch]

\* the variables of the other specifications
modernVars == <<expr, handle, expire, fdb, last, prev, written, fileVars,
                cacheExpire, cache, error, self_key, sessionLive, qlast, lastFetch>>

\* QRZ.authenticate of src/qrzlib.py
LegacyAuthenticate ==
  /\ \E answer \in {"Key", "Error", "URLError"} :
       legacy_key' = CASE answer = "Key" -> "K" [] answer = "Error" -> None
                       [] OTHER -> legacy_key
  /\ UNCHANGED <<now, dbm_file, _expire, _data, glast, missed, modernVars>>

\* QRZ.get_call of src/qrzlib.py, with the gdb_cache wrapper around _get_call
LegacyGetCall(callsign) ==
  LET found == GDBMCacheGetKey(dbm_file, _expire, callsign, now)
      Raise(exc) ==
        /\ glast' = [op |-> "get_call", call |-> callsign, exc |-> exc,
                     ret |-> EmptyDict, hit |-> FALSE]
        /\ UNCHANGED <<dbm_file, _data, missed>>
      \* get_call with the dict the wrapper gave it
      Finish(qrz_data, hit) ==
        IF "__qrzlib_error" \in DOMAIN qrz_data
        THEN /\ _data' = EmptyDict
             /\ glast' = [op |-> "get_call", call |-> callsign, exc |-> "NotFound",
                          ret |-> qrz_data, hit |-> hit]
        ELSE /\ _data' = DictUpdate(_data, qrz_data)
             /\ glast' = [op |-> "get_call", call |-> callsign, exc |-> None,
                          ret |-> qrz_data, hit |-> hit]
  IN
  /\ IF legacy_key = None THEN Raise("SessionError")
     ELSE IF found.exc = "SystemError" THEN Raise("SystemError")
     ELSE IF found.exc = None
     THEN /\ Finish(found.record, TRUE)
          /\ UNCHANGED <<dbm_file, missed>>
     ELSE \E reply \in LegacyReplies(callsign) :
       IF reply.raised THEN Raise("IOError")
       ELSE LET stored == GDBMCacheStoreKey(dbm_file, callsign, reply.data, now) IN
            /\ dbm_file' = stored.file
            /\ missed' = [missed EXCEPT ![callsign] = stored.data]
            /\ Finish(stored.data, FALSE)
  /\ UNCHANGED <<now, _expire, legacy_key, modernVars>>

\* the wall clock moves on between two calls
LegacyAdvance ==
  /\ \E t \in Instants : t > now /\ now' = t
  /\ UNCHANGED <<dbm_file, _expire, legacy_key, _data, glast, missed, modernVars>>

NextLegacy ==
  \/ LegacyAuthenticate
  \/ \E c \in Calls : LegacyGetCall(c)
  \/ LegacyAdvance

SpecLegacy == InitLegacy /\ [][NextLegacy]_vars

----------------------------------------------------------------------------
(* Properties of the store (Spec) *)

\* keys put and not removed since
Live == {k \in Keys : written[k] # NoPut}

\* time between the put that wrote the entry of the last call's key and that call
Elapsed == last.at - written[last.key].at

GetOfWritten == last.op = "get" /\ written[last.key] # NoPut

GetHit == last.exc = None /\ last.ret = written[last.key].data

GetNotFound == last.exc = "KeyError"

\* C1: with a time-to-live T > 0, a get of an entry put at t0 returns its value
\* when t - t0 < T and fails with KeyError when t - t0 >= T, at t0 + T included.
C1_ExpiresFromTTL ==
  (GetOfWritten /\ expire > 0) =>
    /\ (Elapsed < expire => GetHit)
    /\ (Elapsed >= expire => GetNotFound)

\* What DBMCache.get does: the entry is still served at exactly t0 + T and is
\* refused only when t - t0 > T.
GetServesUpToTTL ==
  (GetOfWritten /\ expire > 0) =>
    /\ (Elapsed <= expire => GetHit)
    /\ (Elapsed > expire => GetNotFound)

\* C2: a store whose time-to-live is 0 never expires an entry: a get of a key
\* put and not removed since returns its value at every later time.
C2_ZeroNeverExpires ==
  (GetOfWritten /\ expire = 0) => GetHit

\* C3: put(k, v) immediately followed by get(k), with no elapsed time or with a
\* time-to-live of 0, returns exactly v, whatever entry k held before the put.
C3_PutThenGet ==
  (/\ last.op = "get" /\ prev.op = "put" /\ prev.key = last.key
   /\ (last.at = prev.at \/ expire = 0))
    => GetHit

\* The part of C3 the code keeps: with no elapsed time the get returns v.
PutThenGetSameInstant ==
  (last.op = "get" /\ prev.op = "put" /\ prev.key = last.key /\ last.at = prev.at)
    => GetHit

\* C7: remove(k) followed by get(k), with no other call in between, fails with
\* KeyError whatever the store held for k (nothing, a fresh or a stale entry).
C7_RemoveThenGetNotFound ==
  (last.op = "get" /\ prev.op = "remove" /\ prev.key = last.key) => GetNotFound

\* C7 witness: an entry was deleted by remove and the get that follows fails.
C7_Witness ==
  /\ last.op = "get" /\ prev.op = "remove" /\ prev.key = last.key
  /\ prev.exc = None
  /\ GetNotFound

\* C8: remove(k) returns true and deletes the entry when k is present; it
\* returns false, raises nothing and changes nothing when k is absent.
C8_RemoveReportsEffect ==
  [][\A k \in Keys : Remove(k) =>
       /\ last'.exc = None
       /\ last'.ret = (IF written[k] # NoPut THEN "True" ELSE "False")
       /\ k \notin DOMAIN fdb'
       /\ (written[k] = NoPut => fdb' = fdb)]_vars

\* C10: size() is the number of keys put and not removed since, stale entries
\* included, whatever the time-to-live and the clock.
C10_SizeCountsStale ==
  /\ DBMCacheLen(fdb) = Cardinality(Live)
  /\ (last.op = "len" => last.ret = Cardinality(Live))

\* C10 witness: size() reports 1 for a store whose only entry is past its TTL.
C10_Witness ==
  /\ last.op = "len" /\ last.ret = 1
  /\ \E k \in Keys :
       /\ written[k] # NoPut
       /\ expire > 0
       /\ last.at - written[k].at > expire

\* the dbm file holds, under every key put and not removed since, the record
\* of that put: its payload and the time it was made
StoredAsWritten ==
  \A k \in Keys :
    written[k] # NoPut =>
      /\ k \in DOMAIN fdb
      /\ fdb[k] = [age |-> written[k].at, data |-> written[k].data]

\* C15: get, size and expiration_date leave the content of the dbm file as it
\* was, whether the key is fresh, stale or absent, and so does the passing of
\* time: an entry stays, with the time and payload of its put, until the key
\* is put again or removed.
C15_ReadsLeaveStore ==
  [][/\ (last'.op \in {"get", "len", "expiration_date"} \/ now' # now) => fdb' = fdb
     /\ StoredAsWritten']_vars

\* C15 witness: a get has refused a stale entry, and the entry is still in the
\* file with the time and payload of its put.
C15_Witness ==
  /\ last.op = "get" /\ last.exc = "KeyError"
  /\ written[last.key] # NoPut
  /\ last.at - written[last.key].at > expire
  /\ last.key \in DOMAIN fdb
  /\ fdb[last.key] = [age |-> written[last.key].at, data |-> written[last.key].data]

\* C18: put(k, v) on a key that holds an entry replaces its payload and its
\* time, which becomes the time of this put, and leaves the size and every
\* other entry as they were; only put(k, _) and remove(k) change what is
\* stored under k.
C18_ReplacedWholesale ==
  [][/\ last'.op = "put" =>
          LET k == last'.key IN
          /\ DOMAIN fdb' = DOMAIN fdb \cup {k}
          /\ fdb'[k] = [age |-> last'.at, data |-> written'[k].data]
          /\ \A k2 \in DOMAIN fdb \ {k} : fdb'[k2] = fdb[k2]
          /\ k \in DOMAIN fdb => Cardinality(DOMAIN fdb') = Cardinality(DOMAIN fdb)
     /\ \A k \in Keys :
          (\/ (k \in DOMAIN fdb) # (k \in DOMAIN fdb')
           \/ (k \in DOMAIN fdb /\ k \in DOMAIN fdb' /\ fdb'[k] # fdb[k])) =>
            /\ last'.op \in {"put", "remove"}
            /\ last'.key = k]_vars

\* C18 witness: a key put twice at different times, with different payloads,
\* holds the second payload and the second time.
C18_Witness ==
  /\ last.op = "put" /\ prev.op = "put" /\ prev.key = last.key
  /\ prev.at < last.at
  /\ fdb[last.key].age = last.at
  /\ fdb[last.key].data = written[last.key].data
  /\ Cardinality(DOMAIN fdb) = 2

----------------------------------------------------------------------------
(* Properties of the dbm file and its handles (SpecFile) *)

\* C14: between two calls the program holds no open handle on the dbm file:
\* every call, the constructor included, has released what it opened.
C14_NoHandleBetweenCalls == open_handles = 0

\* The part of C14 the code keeps: put, get, remove, __len__ and
\* expiration_date leave no handle open.
CallsReleaseTheirHandle ==
  [][last'.op \in {"put", "get", "remove", "len", "expiration_date"} =>
       open_handles' <= open_handles]_vars

\* C16: a constructor that fails on a malformed cache_expire has made no
\* dbm.open call, and the path, the content of the file and the open handles
\* are what they were before.
C16_RejectedBeforeIO ==
  [][(last'.op = "construct" /\ last'.exc = "SystemError") =>
       /\ opens' = 0
       /\ location' = location
       /\ fdb' = fdb
       /\ open_handles' = 0]_vars

\* C16 witness: the constructor has raised SystemError on a path that held no
\* file, and the path still holds none.
C16_Witness ==
  /\ last.op = "construct" /\ last.exc = "SystemError"
  /\ handle.exc = "SystemError"
  /\ location = "absent"
  /\ opens = 0

\* C17: a constructor with a well-formed cache_expire creates what is missing
\* of the path, directories included, and an empty file; it keeps the entries
\* of a file that exists; it raises IOError and gives no object when the path
\* cannot be written.
C17_ConstructEnsuresLocation ==
  [][(last'.op = "construct" /\ last'.exc # "SystemError") =>
       /\ location \in {"absent", "noparent"} =>
            /\ last'.exc = None
            /\ location' = "present"
            /\ DBMCacheLen(fdb') = 0
       /\ location = "present" =>
            /\ last'.exc = None
            /\ fdb' = fdb
       /\ location = "denied" =>
            /\ last'.exc = "IOError"
            /\ handle'.exc # None]_vars

\* What the constructor does with the path: the file is created when only the
\* file is missing, an existing file keeps its entries, and a missing
\* directory is an IOError like a path that cannot be written.
ConstructCreatesFileOnly ==
  [][(last'.op = "construct" /\ last'.exc # "SystemError") =>
       /\ location = "absent" =>
            last'.exc = None /\ location' = "present" /\ DBMCacheLen(fdb') = 0
       /\ location = "present" => last'.exc = None /\ fdb' = fdb
       /\ location \in {"noparent", "denied"} =>
            last'.exc = "IOError" /\ handle'.exc # None /\ location' = location]_vars

\* C19: an entry put through one DBMCache is in the file, with the time and
\* payload of its put, for every DBMCache built later on the same path, and a
\* get through the later object returns the payload while the time since the
\* put is below the time to live of that object.
C19_PersistsAcrossHandles ==
  /\ StoredAsWritten
  /\ (GetOfWritten /\ Elapsed < expire) => GetHit

\* C19 witness: a get has returned the payload of an entry put at an earlier
\* time, before the DBMCache of the get was constructed.
C19_Witness ==
  /\ last.op = "get" /\ last.exc = None
  /\ last.key \in carried
  /\ last.ret = written[last.key].data
  /\ written[last.key].at < last.at

----------------------------------------------------------------------------
(* Properties of the legacy decorator cache (SpecLegacy) *)

\* C21: the dict the wrapped _get_call returns on a hit is equal, key for key,
\* to the dict it returned when it fetched and stored the callsign, and
\* neither the dict it returns nor QRZ._data holds the _GDBMCache_expire_ key.
C21_HitEqualsMiss ==
  /\ (glast.op = "get_call" /\ glast.hit) => glast.ret = missed[glast.call]
  /\ KExpire \notin DOMAIN glast.ret
  /\ KExpire \notin DOMAIN _data

\* What the decorator does: the dict of a hit is the dict of the miss without
\* the _GDBMCache_expire_ key, which the miss carries.
HitIsMissWithoutStamp ==
  /\ (glast.op = "get_call" /\ glast.hit) =>
       /\ KExpire \in DOMAIN missed[glast.call]
       /\ glast.ret = DictDel(missed[glast.call], KExpire)
  /\ (glast.op = "get_call" /\ ~glast.hit /\ glast.exc \in {None, "NotFound"}) =>
       /\ KExpire \in DOMAIN glast.ret
       /\ glast.ret = missed[glast.call]
       /\ glast.exc = None => KExpire \in DOMAIN _data

----------------------------------------------------------------------------
(* Properties of the orchestrator (SpecQRZ) *)

\* the last answer of the server about c was of this kind, less than ttl ago
AnsweredWithin(c, kind, ttl) ==
  /\ lastFetch[c].reply = kind
  /\ now - lastFetch[c].at < ttl

\* C4: a get_call whose fetch was answered "not found" stores the failure in
\* the negative store, and every get_call of the same callsign made within the
\* negative store's TTL of that answer returns None without calling _get_call.
C4_NegativeMemoization ==
  [][\A c \in Calls : GetCall(c) =>
       /\ qlast'.reply = "NotFound" =>
            /\ c \in DOMAIN error'
            /\ error'[c] = [age |-> now, data |-> <<"'", "Not found: callsign", "'">>]
            /\ qlast'.exc = None /\ qlast'.ret = None
       /\ AnsweredWithin(c, "NotFound", ErrorExpire) =>
            /\ ~qlast'.fetched
            /\ qlast'.exc = None /\ qlast'.ret = None]_vars

\* C4 witness: a later get_call, inside the negative TTL of a "not found"
\* answer, has returned None without a fetch.
C4_Witness ==
  /\ qlast.op = "get_call" /\ ~qlast.fetched /\ qlast.ret = None
  /\ lastFetch[qlast.call].reply = "NotFound"
  /\ lastFetch[qlast.call].at < now
  /\ now - lastFetch[qlast.call].at < ErrorExpire

\* C5: a fetch that fails for any reason other than "not found" (no session
\* key, session error, transport error) makes get_call raise and writes
\* nothing to either store.
C5_OnlyNotFoundMemoized ==
  [][\A c \in Calls :
       (GetCall(c) /\ qlast'.fetched /\ qlast'.reply \notin {"Callsign", "NotFound"}) =>
         /\ qlast'.exc # None
         /\ error' = error
         /\ cache' = cache]_vars

\* The part of C5 the code keeps: a transport error and a missing session key
\* propagate and nothing is written.
TransportErrorsPropagate ==
  [][\A c \in Calls :
       (GetCall(c) /\ qlast'.fetched /\ qlast'.reply \in {"URLError", "none"}) =>
         /\ qlast'.exc \in {"URLError", "AttributeError"}
         /\ error' = error
         /\ cache' = cache]_vars

\* C6: a get_call whose fetch returned record r writes r to the positive store
\* and returns it; every get_call of the same callsign within the positive
\* store's TTL of that fetch returns r without a fetch and writes to no store.
C6_PositiveCaching ==
  [][\A c \in Calls : GetCall(c) =>
       /\ qlast'.reply = "Callsign" =>
            /\ c \in DOMAIN cache'
            /\ cache'[c] = [age |-> now, data |-> lastFetch'[c].data]
            /\ qlast'.exc = None /\ qlast'.ret = lastFetch'[c].data
       /\ AnsweredWithin(c, "Callsign", cacheExpire) =>
            /\ ~qlast'.fetched
            /\ qlast'.exc = None /\ qlast'.ret = lastFetch[c].data
            /\ cache' = cache /\ error' = error]_vars

\* C6 witness: a later get_call, inside the positive TTL of a fetched record
\* and after the negative TTL has run out, has returned the record unfetched.
C6_Witness ==
  /\ qlast.op = "get_call" /\ ~qlast.fetched
  /\ lastFetch[qlast.call].reply = "Callsign"
  /\ qlast.ret = lastFetch[qlast.call].data
  /\ lastFetch[qlast.call].at < now
  /\ now - lastFetch[qlast.call].at >= ErrorExpire
  /\ now - lastFetch[qlast.call].at < cacheExpire

\* C11: the two stores age their entries independently. A callsign held by
\* the positive store only is returned without a fetch at every age below the
\* positive time to live, also past the negative one; a callsign held by the
\* negative store only is answered None without a fetch below the negative
\* time to live and is fetched again past it, whatever the positive one is.
C11_IndependentTTLs ==
  [][\A c \in Calls : GetCall(c) =>
       /\ (c \in DOMAIN cache /\ c \notin DOMAIN error
             /\ now - cache[c].age < cacheExpire) =>
            /\ ~qlast'.fetched
            /\ qlast'.exc = None /\ qlast'.ret = cache[c].data
       /\ (c \notin DOMAIN cache /\ c \in DOMAIN error
             /\ now - error[c].age < ErrorExpire) =>
            /\ ~qlast'.fetched
            /\ qlast'.exc = None /\ qlast'.ret = None
       /\ (c \notin DOMAIN cache /\ c \in DOMAIN error
             /\ now - error[c].age > ErrorExpire) =>
            qlast'.fetched]_vars

\* C11 witness: a record older than the negative time to live and younger than
\* the positive one, of a callsign the negative store does not hold, has been
\* returned without a fetch.
C11_Witness ==
  /\ qlast.op = "get_call" /\ ~qlast.fetched /\ qlast.exc = None
  /\ qlast.call \in DOMAIN cache /\ qlast.call \notin DOMAIN error
  /\ qlast.ret = cache[qlast.call].data
  /\ now - cache[qlast.call].age > ErrorExpire
  /\ now - cache[qlast.call].age < cacheExpire

\* C12: get_call reads and writes both stores under the upper-cased callsign:
\* every key it adds is upper-cased, and a get_call of a callsign that differs
\* only in case from one fetched within the positive time to live does not fetch.
C12_KeysUpperCased ==
  [][\A c \in Calls : GetCall(c) =>
       /\ \A k \in DOMAIN cache' \cup DOMAIN error' : k = Upper(k)
       /\ (\E c2 \in Calls : /\ Upper(c2) = Upper(c)
                             /\ AnsweredWithin(c2, "Callsign", cacheExpire)) =>
            ~qlast'.fetched]_vars

\* an entry of the store the code would still serve at the current clock reading
FreshIn(db, ttl, c) == c \in DOMAIN db /\ now - db[c].age <= ttl

\* keys whose entry differs between two contents of a store
Changed(db1, db2) ==
  {k \in DOMAIN db1 \cup DOMAIN db2 :
     \/ k \notin DOMAIN db1
     \/ k \notin DOMAIN db2
     \/ db1[k] # db2[k]}

\* C20: starting from two empty stores and calling only get_call, no callsign
\* is fresh in both stores at once; a get_call writes to a store only after
\* both lookups of its callsign missed, and it writes at most one entry, of
\* its own callsign, in one store.
C20_StoresExclusive ==
  [][\A c \in Calls : GetCall(c) =>
       /\ Cardinality(Changed(cache, cache')) + Cardinality(Changed(error, error')) <= 1
       /\ Changed(cache, cache') \cup Changed(error, error') \subseteq {c}
       /\ (cache' # cache \/ error' # error) =>
            /\ ~FreshIn(cache, cacheExpire, c)
            /\ ~FreshIn(error, ErrorExpire, c)
            /\ qlast'.fetched
       /\ \A k \in Calls :
            ~(FreshIn(cache, cacheExpire, k)' /\ FreshIn(error, ErrorExpire, k)')]_vars

\* C20 witness: a get_call has written the negative entry of a callsign whose
\* positive entry, written by an earlier get_call, has gone stale.
C20_Witness ==
  /\ qlast.op = "get_call" /\ qlast.fetched /\ qlast.reply = "NotFound"
  /\ qlast.call \in DOMAIN cache /\ qlast.call \in DOMAIN error
  /\ error[qlast.call].age = now
  /\ ~FreshIn(cache, cacheExpire, qlast.call)

----------------------------------------------------------------------------
(* Properties of the orchestrator on failing storage (SpecQRZIO) *)

\* C13: when the fetch of a get_call returned record r and the put into the
\* positive store failed, the call still gives r to its caller and nothing is
\* written to the negative store.
C13_FailedWriteNotFatal ==
  [][\A c \in Calls : \A reply \in Replies(TRUE) :
       (GetCallPutFails(c, reply) /\ ReplyKind(reply) = "Callsign") =>
         /\ qlast'.ret = reply.callsign
         /\ error' = error]_vars

\* What the code does when a put fails: IOError leaves get_call and neither
\* store is written.
PutFailurePropagates ==
  [][\A c \in Calls : \A reply \in Replies(TRUE) \cup Replies(FALSE) :
       GetCallPutFails(c, reply) =>
         /\ qlast'.exc = "IOError" /\ qlast'.ret = None
         /\ cache' = cache /\ error' = error]_vars

----------------------------------------------------------------------------
(* Properties of the expiration expression (SpecParse) *)

UnitLetters == {"H", "D", "W", "M", "Y", "h", "d", "w", "m", "y"}

\* <integer><unit>? : one or more decimal digits, then at most one unit letter
IsTtlExpression(s) ==
  \E n \in 1..Len(s) :
    /\ \A i \in 1..n : IsDigit(s[i])
    /\ \/ Len(s) = n
       \/ Len(s) = n + 1 /\ s[n + 1] \in UnitLetters

Magnitude(s) ==
  ToInt(SelectSeq(s, IsDigit))

SecondsPerUnit(s) ==
  LET u == IF s[Len(s)] \in UnitLetters THEN UpperChar(s[Len(s)]) ELSE "" IN
  CASE u = "" -> 60
    [] u = "H" -> 3600
    [] u = "D" -> 86400
    [] u = "W" -> 7 * 86400
    [] u = "M" -> 2635200
    [] u = "Y" -> 364 * 86400

\* C9: DBMCache() computes magnitude x multiplier for every expression of the
\* form <integer><unit>? and fails with SystemError on every other expression.
C9_TtlParsing ==
  handle # NoHandle =>
    IF IsTtlExpression(expr)
    THEN handle.exc = None /\ handle.cache_expire = Magnitude(expr) * SecondsPerUnit(expr)
    ELSE handle.exc = "SystemError"

\* The part of C9 the code keeps: every well-formed expression gets
\* magnitude x multiplier.
WellFormedTtlComputed ==
  (handle # NoHandle /\ IsTtlExpression(expr)) =>
    handle.exc = None /\ handle.cache_expire = Magnitude(expr) * SecondsPerUnit(expr)

====
